---- MODULE Spec2Model ----
(***************************************************************************)
(* CleanTelegram: the dialog-processing and retry engine of               *)
(* src/clean_telegram/cleaner.py (clean_all_dialogs, _process_dialog,      *)
(* _dialog_matches_filter and the three request helpers).                  *)
(*                                                                         *)
(* Text is modelled as a sequence of one-character strings, so that str(), *)
(* lower(), "in" on strings and the f-string placeholder are computed and  *)
(* not assumed.  None and the empty string are both the empty sequence:    *)
(* the code only ever tests them for truthiness ("x or ...", "if x:").     *)
(***************************************************************************)
EXTENDS Integers, Sequences, FiniteSets, TLC

\* ------------------------------------------------------------------ bounds
\* Longest conversation source that is enumerated.
MaxDialogs == 3
\* Largest value of the limit parameter that is tried (0 = no limit).
MaxLimit == 1
MaxMessages == 3
MaxConcurrent == 2

\* --------------------------------------------------------------- constants
\* cleaner.py:204  max_retries = 5
max_retries == 5
\* cleaner.py:222  wait_s = max(5, ...)
MinWait == 5
\* cleaner.py:216  safe_sleep(0.35), in hundredths of a second
PacingCs == 35

\* ------------------------------------------------------------------- text
Empty == << >>

Digit(n) ==
  CASE n = 0 -> "0" [] n = 1 -> "1" [] n = 2 -> "2" [] n = 3 -> "3"
    [] n = 4 -> "4" [] n = 5 -> "5" [] n = 6 -> "6" [] n = 7 -> "7"
    [] n = 8 -> "8" [] n = 9 -> "9"

RECURSIVE DecStr(_)
\* str(n) of a non-negative integer.
DecStr(n) == IF n < 10 THEN << Digit(n) >> ELSE DecStr(n \div 10) \o << Digit(n % 10) >>

\* The id attribute is absent on an entity of unknown shape.
NoId == -1

\* str(getattr(entity, "id", ""))
IdStr(id) == IF id = NoId THEN Empty ELSE DecStr(id)

LowerChar(c) ==
  CASE c = "A" -> "a" [] c = "B" -> "b" [] c = "C" -> "c" [] c = "D" -> "d"
    [] OTHER -> c

\* str.lower()
Lower(s) == [i \in 1..Len(s) |-> LowerChar(s[i])]

\* "p in s" on strings
Contains(s, p) ==
  \E i \in 0..(Len(s) - Len(p)) : SubSeq(s, i + 1, i + Len(p)) = p

\* "x in list"
InList(x, l) == \E i \in 1..Len(l) : l[i] = x

\* ------------------------------------------------------------------ dates
\* A datetime: wall-clock hour, and the UTC offset when timezone-aware.
NoDate == [has |-> FALSE, wall |-> 0, aware |-> FALSE, off |-> 0]
Naive(w) == [has |-> TRUE, wall |-> w, aware |-> FALSE, off |-> 0]
Aware(w, o) == [has |-> TRUE, wall |-> w, aware |-> TRUE, off |-> o]

\* datetime.replace(tzinfo=timezone.utc)
ReplaceUtc(dt) == [dt EXCEPT !.aware = TRUE, !.off = 0]
\* datetime.replace(tzinfo=None)
ReplaceNone(dt) == [dt EXCEPT !.aware = FALSE, !.off = 0]

\* Mutant: a date equal to the cutoff is not excluded.
DateGe_Strict(a, b) ==
  IF a.aware THEN a.wall - a.off > b.wall - b.off ELSE a.wall > b.wall

\* a >= b between two naive or two aware datetimes
DateGe(a, b) ==
  IF a.aware THEN a.wall - a.off >= b.wall - b.off ELSE a.wall >= b.wall

\* --------------------------------------------------------------- dialogs
\* A dialog as iter_dialogs yields it: d.name, d.date and d.entity, whose
\* class is cls and whose attributes are id, username, broadcast, title and
\* first_name.
Dialog(cls, broadcast, id, username, name, etitle, first_name, date) ==
  [cls |-> cls, broadcast |-> broadcast, id |-> id, username |-> username,
   name |-> name, etitle |-> etitle, first_name |-> first_name, date |-> date]

NoDialog == Dialog("None", FALSE, NoId, Empty, Empty, Empty, Empty, NoDate)

DialogPool ==
  { Dialog("Channel", TRUE, 1, <<"a","b">>, <<"A","B">>, <<"A","B">>, Empty, Aware(6, 0)),
    Dialog("Channel", FALSE, 2, Empty, Empty, <<"c","d">>, Empty, Naive(3)),
    Dialog("Chat", FALSE, 30, Empty, <<"A","b">>, <<"A","b">>, Empty, Aware(5, 1)),
    Dialog("User", FALSE, 4, <<"c","d">>, Empty, Empty, <<"a","b">>, Naive(5)),
    Dialog("Other", FALSE, NoId, Empty, Empty, Empty, Empty, NoDate) }

\* ---------------------------------------------------------------- filter
CleanFilter(types, before_date, name_pattern, whitelist) ==
  [types |-> types, before_date |-> before_date,
   name_pattern |-> name_pattern, whitelist |-> whitelist]

DefaultFilter == CleanFilter(<< >>, NoDate, Empty, << >>)

TChannel == <<"c","h">>
TGroup == <<"g","r">>
TUser == <<"u","s">>
TUnknown == <<"u","n">>

Filters ==
  { DefaultFilter,
    CleanFilter(<< TChannel, TGroup, TUser >>, Naive(9), <<"B">>,
                << <<"A","b">>, <<"a","b">>, <<"3","0">> >>),
    CleanFilter(<< TChannel >>, NoDate, Empty, << >>),
    CleanFilter(<< >>, Naive(5), Empty, << >>),
    CleanFilter(<< >>, Aware(5, 1), Empty, << >>),
    CleanFilter(<< >>, NoDate, <<"a","B">>, << >>) }

\* Mutant: every Channel is tagged "channel", broadcast or not.
EntityType_ChannelAlways(d) ==
  IF d.cls = "Channel" THEN TChannel
  ELSE IF d.cls = "Chat" THEN TGroup
  ELSE IF d.cls = "User" THEN TUser
  ELSE TUnknown

\* The entity type tag computed inside "if f.types:".
EntityType(d) ==
  IF d.cls = "Channel" THEN (IF d.broadcast THEN TChannel ELSE TGroup)
  ELSE IF d.cls = "Chat" THEN TGroup
  ELSE IF d.cls = "User" THEN TUser
  ELSE TUnknown

\* Mutant: the display name is not looked up in the whitelist.
Whitelisted_IdOrUsernameOnly(d, ttl, flt) ==
  \/ InList(IdStr(d.id), flt.whitelist)
  \/ InList(d.username, flt.whitelist)

\* The whitelist test of _dialog_matches_filter.
Whitelisted(d, ttl, flt) ==
  \/ InList(IdStr(d.id), flt.whitelist)
  \/ InList(d.username, flt.whitelist)
  \/ InList(ttl, flt.whitelist)

\* The date the dialog's date is compared with, after timezone normalisation.
CompareDate(last_msg_date, before_date) ==
  IF last_msg_date.aware
  THEN (IF ~before_date.aware THEN ReplaceUtc(before_date) ELSE before_date)
  ELSE (IF before_date.aware THEN ReplaceNone(before_date) ELSE before_date)

\* Mutant: the type test is made even when f.types is empty.
DialogMatchesFilter_TypesAlways(d, ttl, flt) ==
  IF Whitelisted(d, ttl, flt) THEN FALSE
  ELSE IF ~InList(EntityType(d), flt.types) THEN FALSE
  ELSE IF flt.before_date.has /\ d.date.has
          /\ DateGe(d.date, CompareDate(d.date, flt.before_date)) THEN FALSE
  ELSE IF flt.name_pattern # Empty
          /\ ~Contains(Lower(ttl), Lower(flt.name_pattern)) THEN FALSE
  ELSE TRUE

\* _dialog_matches_filter(d, entity, title, f)
DialogMatchesFilter(d, ttl, flt) ==
  IF Whitelisted(d, ttl, flt) THEN FALSE
  ELSE IF flt.types # << >> /\ ~InList(EntityType(d), flt.types) THEN FALSE
  ELSE IF flt.before_date.has /\ d.date.has
          /\ DateGe(d.date, CompareDate(d.date, flt.before_date)) THEN FALSE
  ELSE IF flt.name_pattern # Empty
          /\ ~Contains(Lower(ttl), Lower(flt.name_pattern)) THEN FALSE
  ELSE TRUE

\* d.name or entity.title or entity.first_name or f"(id={getattr(entity, 'id', '?')})"
Title(d) ==
  IF d.name # Empty THEN d.name
  ELSE IF d.etitle # Empty THEN d.etitle
  ELSE IF d.first_name # Empty THEN d.first_name
  ELSE <<"(","i","d","=">> \o (IF d.id = NoId THEN <<"?">> ELSE DecStr(d.id)) \o <<")">>

\* ------------------------------------------------------- the chat client
\* What one call to the client answers.  seconds is the wait a
\* FloodWaitError advertises; NoSeconds stands for a missing or None value.
NoSeconds == -1
FloodSeconds == {NoSeconds, 0, 7}

Ok == [type |-> "ok", seconds |-> 0]
Flood(s) == [type |-> "FloodWaitError", seconds |-> s]
RpcErr == [type |-> "RPCError", seconds |-> 0]
OtherErr == [type |-> "Exception", seconds |-> 0]

Responses == {Ok, RpcErr, OtherErr} \cup {Flood(s) : s \in FloodSeconds}

\* isinstance(e, RPCError): FloodWaitError derives from RPCError.
IsRPCError(r) == r.type \in {"RPCError", "FloodWaitError"}

\* An observed event: a request that reached the client, an invocation of
\* on_floodwait, or a sleep.
Event(ev, req, target, label, secs, n, max) ==
  [ev |-> ev, req |-> req, target |-> target, label |-> label,
   secs |-> secs, attempt |-> n, max |-> max]

Call(req, target) == Event("call", req, target, Empty, 0, 0, 0)
CallbackEv(label, wait_s, n, max) == Event("on_floodwait", "", NoId, label, wait_s, n, max)
FloodSleep(wait_s) == Event("asyncio.sleep", "", NoId, Empty, wait_s, 0, 0)
PacingSleep == Event("safe_sleep", "", NoId, Empty, PacingCs, 0, 0)
\* The client answered the request just sent with r (ok or an exception).
Answered(r) == Event("answer", r.type, NoId, Empty, 0, 0, 0)
\* on_floodwait raised instead of returning.
CallbackRaised == Event("raise", "on_floodwait", NoId, Empty, 0, 0, 0)
\* The exception r reached the except clause h of the retry loop.
Caught(r, h) == Event("except", h, NoId, Empty, r.seconds, 0, 0)

\* The outcome of a helper: the requests it sent, each with the client's
\* answer, and how it ended.
Ran(calls, result) == [calls |-> calls, result |-> result]

\* delete_dialog(client, peer, dry_run=...)
delete_dialog(peer, dry, r) ==
  IF dry THEN Ran(<< >>, Ok)
  ELSE Ran(<< Call("DeleteHistoryRequest(revoke=True)", peer.id), Answered(r) >>, r)

\* leave_channel(client, entity, dry_run=...)
leave_channel(entity, dry, r) ==
  IF dry THEN Ran(<< >>, Ok)
  ELSE Ran(<< Call("LeaveChannelRequest", entity.id), Answered(r) >>, r)

\* Mutant: the request is sent without looking at dry_run.
leave_legacy_chat_NoDryRunTest(entity, dry, r) ==
  Ran(<< Call("DeleteChatUserRequest", entity.id), Answered(r) >>, r)

\* leave_legacy_chat(client, entity, dry_run=...)
leave_legacy_chat(entity, dry, r) ==
  IF dry THEN Ran(<< >>, Ok)
  ELSE Ran(<< Call("DeleteChatUserRequest", entity.id), Answered(r) >>, r)

\* client.delete_dialog(entity) guarded by "if not dry_run"
client_delete_dialog(entity, dry, r) ==
  IF dry THEN Ran(<< >>, Ok)
  ELSE Ran(<< Call("client.delete_dialog", entity.id), Answered(r) >>, r)

\* Mutant: a direct peer is handled by the generic branch.
ProcessDialog_UserAsUnknown(entity, dry, r1, r2) ==
  IF entity.cls = "Channel" THEN leave_channel(entity, dry, r1)
  ELSE IF entity.cls = "Chat" THEN
    LET first == leave_legacy_chat(entity, dry, r1) IN
      IF IsRPCError(first.result)
      THEN LET fb == client_delete_dialog(entity, dry, r2) IN
             Ran(first.calls \o fb.calls, fb.result)
      ELSE first
  ELSE client_delete_dialog(entity, dry, r1)

\* Mutant: an entity of unknown type is handled like a User.
ProcessDialog_UnknownAsUser(entity, dry, r1, r2) ==
  IF entity.cls = "Channel" THEN leave_channel(entity, dry, r1)
  ELSE IF entity.cls = "Chat" THEN
    LET first == leave_legacy_chat(entity, dry, r1) IN
      IF IsRPCError(first.result)
      THEN LET fb == client_delete_dialog(entity, dry, r2) IN
             Ran(first.calls \o fb.calls, fb.result)
      ELSE first
  ELSE delete_dialog(entity, dry, r1)

\* Mutant: a legacy group has no fallback.
ProcessDialog_NoFallback(entity, dry, r1, r2) ==
  IF entity.cls = "Channel" THEN leave_channel(entity, dry, r1)
  ELSE IF entity.cls = "Chat" THEN leave_legacy_chat(entity, dry, r1)
  ELSE IF entity.cls = "User" THEN delete_dialog(entity, dry, r1)
  ELSE client_delete_dialog(entity, dry, r1)

\* Mutant: an exception raised by the fallback is swallowed.
ProcessDialog_FallbackAbsorbed(entity, dry, r1, r2) ==
  IF entity.cls = "Channel" THEN leave_channel(entity, dry, r1)
  ELSE IF entity.cls = "Chat" THEN
    LET first == leave_legacy_chat(entity, dry, r1) IN
      IF IsRPCError(first.result)
      THEN LET fb == client_delete_dialog(entity, dry, r2) IN
             Ran(first.calls \o fb.calls, Ok)
      ELSE first
  ELSE IF entity.cls = "User" THEN delete_dialog(entity, dry, r1)
  ELSE client_delete_dialog(entity, dry, r1)

\* _process_dialog: r1 answers the first request, r2 the fallback request.
ProcessDialog(entity, dry, r1, r2) ==
  IF entity.cls = "Channel" THEN leave_channel(entity, dry, r1)
  ELSE IF entity.cls = "Chat" THEN
    LET first == leave_legacy_chat(entity, dry, r1) IN
      IF IsRPCError(first.result)
      THEN LET fb == client_delete_dialog(entity, dry, r2) IN
             Ran(first.calls \o fb.calls, fb.result)
      ELSE first
  ELSE IF entity.cls = "User" THEN delete_dialog(entity, dry, r1)
  ELSE client_delete_dialog(entity, dry, r1)

\* int(getattr(e, "seconds", 0) or 0)
IntSeconds(s) == IF s = NoSeconds THEN 0 ELSE s

Max(a, b) == IF a >= b THEN a ELSE b

\* Mutant: the advertised wait is used unclamped.
WaitS_Unclamped(s) == IntSeconds(s)

\* wait_s = max(5, int(getattr(e, "seconds", 0) or 0))
WaitS(s) == Max(MinWait, IntSeconds(s))

\* ------------------------------------------------------------------ state
VARIABLES
  dry_run,            \* parameter dry_run
  limit,              \* parameter limit
  f,                  \* clean_filter or CleanFilter()
  on_floodwait,       \* TRUE when a callback was supplied
  pc,                 \* "iter" | "try" | "done" | "raised"
  processed,          \* local processed
  skipped_by_filter,  \* local skipped_by_filter
  d,                  \* the dialog the loop body is working on
  title,              \* local title
  attempt,            \* local attempt
  success,            \* local success
  pulled,             \* dialogs the source has yielded so far
  attempted,          \* dialogs on which _process_dialog ran at least once
  executions,         \* runs of _process_dialog on the current dialog
  callbacks,          \* on_floodwait invocations for the current dialog
  last,               \* events of the latest step, in order
  verdict,            \* how the current dialog ended, "pending" before
  journal,            \* dialogs pulled and requests sent since the start of
                      \* the run, kept until the client first answers with
                      \* an exception
  returned,           \* how the latest call of client.process_dialog ended:
                      \* "True", "False", "raised", or "none" before any call
  messages,           \* what client.iter_messages yields: the media of each
  media_types,        \* parameter media_types
  max_concurrent,     \* parameter max_concurrent
  dpc,                \* "collect" | "gather" | "returned" | "raised"
  download_tasks,     \* the messages a _download_one coroutine was made for
  task,               \* per coroutine: "created", "running", or its result
  semaphore,          \* the value of asyncio.Semaphore(max_concurrent)
  counts              \* the dictionary returned

config == << dry_run, limit, f, on_floodwait >>
locals == << processed, skipped_by_filter, d, title, attempt, success >>
ghost == << pulled, attempted, executions, callbacks, last, verdict, journal >>
download == << messages, media_types, max_concurrent, dpc, download_tasks,
              task, semaphore, counts >>
vars == << config, pc, locals, ghost, returned, download >>

\* download_media_parallel is not running.
NoDownload ==
  /\ messages = << >>
  /\ media_types = [given |-> FALSE, list |-> {}]
  /\ max_concurrent = 0
  /\ dpc = "none"
  /\ download_tasks = << >>
  /\ task = << >>
  /\ semaphore = 0
  /\ counts = << >>

Init ==
  /\ dry_run \in BOOLEAN
  /\ limit \in 0..MaxLimit
  /\ f \in Filters
  /\ on_floodwait \in BOOLEAN
  /\ pc = "iter"
  /\ processed = 0
  /\ skipped_by_filter = 0
  /\ d = NoDialog
  /\ title = Empty
  /\ attempt = 0
  /\ success = FALSE
  /\ pulled = 0
  /\ attempted = 0
  /\ executions = 0
  /\ callbacks = << >>
  /\ last = << >>
  /\ verdict = "none"
  /\ journal = << >>
  /\ returned = "none"
  /\ NoDownload

\* The source yielded dialog nd.
Pulled(nd) == Event("pull", nd.cls, nd.id, Empty, 0, 0, 0)

\* The journal is given up at the first exception the client answers with.
Untracked == << Event("untracked", "", NoId, Empty, 0, 0, 0) >>

\* The journal after a step that added the events evs.
Journal(j, evs) ==
  IF j = Untracked \/ \E i \in 1..Len(evs) : evs[i].ev = "answer" /\ evs[i].req # "ok"
  THEN Untracked
  ELSE j \o SelectSeq(evs, LAMBDA e : e.ev \in {"pull", "call"})

\* Mutant: the limit is never enforced.
LimitReached_Never(lim, done) == FALSE

\* Mutant: the loop stops only once the limit is exceeded.
LimitReached_Strict(lim, done) == lim # 0 /\ done > lim

\* "if limit and processed >= limit: break"
LimitReached(lim, done) == lim # 0 /\ done >= lim

\* Mutant: the attempts of the previous dialog are carried over.
FreshAttempt_Carried(n) == n

\* "attempt = 0" before "while True", whatever attempt was before.
FreshAttempt(n) == 0

\* Mutant: the next dialog is pulled while the current one is retried.
AtLoopTop_Eager(p) == p \in {"iter", "try"}

\* Control is at the head of "async for": the body of the previous turn,
\* its retry loop included, has run to its end (continue, break of the
\* retry loop, or the first turn).
AtLoopTop(p) == p = "iter"

\* One turn of "async for d in client.iter_dialogs()" up to the retry loop:
\* the source yields nd, then the limit test, the title and the filter.
Pull(nd) ==
  /\ AtLoopTop(pc)
  /\ UNCHANGED download
  /\ pulled < MaxDialogs
  /\ pulled' = pulled + 1
  /\ d' = nd
  /\ executions' = 0
  /\ callbacks' = << >>
  /\ last' = << >>
  /\ journal' = Journal(journal, << Pulled(nd) >>)
  /\ UNCHANGED << config, processed, attempted, returned >>
  /\ IF LimitReached(limit, processed)
     THEN /\ pc' = "done"
          /\ verdict' = "discarded"
          /\ UNCHANGED << skipped_by_filter, title, attempt, success >>
     ELSE /\ title' = Title(nd)
          /\ IF ~DialogMatchesFilter(nd, Title(nd), f)
             THEN /\ skipped_by_filter' = skipped_by_filter + 1
                  /\ pc' = "iter"
                  /\ verdict' = "skipped"
                  /\ UNCHANGED << attempt, success >>
             ELSE /\ attempt' = FreshAttempt(attempt)
                  /\ success' = FALSE
                  /\ pc' = "try"
                  /\ verdict' = "pending"
                  /\ UNCHANGED skipped_by_filter

\* The source is exhausted: the loop ends and the counts are returned.
Exhausted ==
  /\ pc = "iter"
  /\ UNCHANGED download
  /\ pc' = "done"
  /\ UNCHANGED << config, locals, ghost, returned >>

\* "if success: processed += 1" after the retry loop
CountIfSuccess(done, ok) == IF ok THEN done + 1 ELSE done

\* Mutant: one attempt too many before giving up.
RetriesExhausted_OffByOne(n) == n > max_retries

\* "if attempt >= max_retries: break"
RetriesExhausted(n) == n >= max_retries

\* Mutant: the attempts are tested before the callback and the wait.
FloodWaits_TestFirst(n) == ~RetriesExhausted(n)

\* Whether the FloodWaitError clause calls on_floodwait and sleeps on its
\* n-th rate limit: both statements come before "if attempt >= max_retries",
\* so they run on every rate limit, the last one included.
FloodWaits(n) == TRUE

\* Mutant: the callback is given the number of attempts made before.
OnFloodwaitCall_ZeroBased(ttl, wait_s, n) ==
  CallbackEv(ttl, wait_s, n - 1, max_retries)

\* on_floodwait(title, wait_s, attempt, max_retries)
OnFloodwaitCall(ttl, wait_s, n) == CallbackEv(ttl, wait_s, n, max_retries)

\* Mutant: the pacing sleep is made after every attempt.
Paces_Always(h) == TRUE

\* Whether an attempt reaches "await safe_sleep(0.35)": the statement
\* follows _process_dialog inside the try block, so only when nothing was
\* raised.
Paces(h) == h = "ok"

\* Mutant: a rate limit is retried without end.
HandlerBreaks_FloodForever(type, n) ==
  CASE type = "ok" -> TRUE
    [] type = "FloodWaitError" -> FALSE
    [] type = "RPCError" -> TRUE
    [] type = "Exception" -> TRUE

\* Mutant: a permanent provider error is retried like a rate limit.
HandlerBreaks_RetryRPCError(type, n) ==
  CASE type = "ok" -> TRUE
    [] type = "FloodWaitError" -> RetriesExhausted(n)
    [] type = "RPCError" -> FALSE
    [] type = "Exception" -> TRUE

\* Whether the handler of an outcome leaves the retry loop (break) or goes
\* round it again: break after success, after RPCError and Exception, and
\* after a FloodWaitError once the attempts are used up.
HandlerBreaks(type, n) ==
  CASE type = "ok" -> TRUE
    [] type = "FloodWaitError" -> RetriesExhausted(n)
    [] type = "RPCError" -> TRUE
    [] type = "Exception" -> TRUE

\* Which except clause of the retry loop receives the outcome: clauses are
\* tried in order FloodWaitError, RPCError, Exception.
Handler(r) ==
  IF r.type = "ok" THEN "ok"
  ELSE IF r.type = "FloodWaitError" THEN "FloodWaitError"
  ELSE IF IsRPCError(r) THEN "RPCError"
  ELSE "Exception"

\* Mutant: the retry loop has no "except Exception" clause.
Propagates_Unexpected(h, called, cbRaises) ==
  (called /\ cbRaises) \/ h = "Exception"

\* Mutant: an exception of on_floodwait is swallowed by the retry loop.
Propagates_Absorbed(h, called, cbRaises) == FALSE

\* Whether an exception leaves the retry loop and clean_all_dialogs: every
\* outcome of _process_dialog has an except clause, so only an exception
\* raised by on_floodwait inside the FloodWaitError clause does.
Propagates(h, called, cbRaises) == called /\ cbRaises

\* The inputs one attempt consumes.  An answer is drawn only for a request
\* that is sent (none in a dry run; a second one only by the fallback of a
\* legacy group), and the callback's behaviour only when it is invoked.
FirstAnswers(dry) == IF dry THEN {Ok} ELSE Responses
SecondAnswers(entity, dry, r1) ==
  IF ~dry /\ entity.cls = "Chat" /\ IsRPCError(r1) THEN Responses ELSE {Ok}
CallbackOutcomes(cb, result) ==
  IF cb /\ result.type = "FloodWaitError" THEN BOOLEAN ELSE {FALSE}

\* One turn of "while True": _process_dialog runs and its outcome is handled,
\* up to and including "if success: processed += 1" when the loop is left.
\* r1 and r2 are the client's answers, cbRaises whether on_floodwait raises.
Attempt(r1, r2, cbRaises) ==
  /\ pc = "try"
  /\ UNCHANGED download
  /\ LET ran == ProcessDialog(d, dry_run, r1, r2)
         res == ran.result
         h == Handler(res)
         n == IF h = "FloodWaitError" THEN attempt + 1 ELSE attempt
         wait_s == WaitS(res.seconds)
         called == h = "FloodWaitError" /\ on_floodwait /\ FloodWaits(n)
         cb == IF called
               THEN << OnFloodwaitCall(title, wait_s, n) >> ELSE << >>
         thrown == IF called /\ cbRaises THEN << CallbackRaised >> ELSE << >>
         escapes == Propagates(h, called, cbRaises)
         sleeps == IF Paces(h) THEN << PacingSleep >>
                   ELSE IF h = "FloodWaitError" /\ ~escapes /\ FloodWaits(n)
                        THEN << FloodSleep(wait_s) >>
                   ELSE << >>
         caught == IF h = "ok" THEN << >> ELSE << Caught(res, h) >>
         breaks == HandlerBreaks(h, n)
         ok == IF h = "ok" THEN TRUE ELSE success
     IN
       /\ executions' = executions + 1
       /\ attempted' = IF executions = 0 THEN attempted + 1 ELSE attempted
       /\ last' = ran.calls \o caught \o cb \o thrown \o sleeps
       /\ journal' = Journal(journal, ran.calls)
       /\ callbacks' = callbacks \o cb
       /\ attempt' = n
       /\ success' = ok
       /\ pc' = IF escapes THEN "raised" ELSE IF breaks THEN "iter" ELSE "try"
       /\ processed' = IF ~escapes /\ breaks
                       THEN CountIfSuccess(processed, ok) ELSE processed
       /\ verdict' = IF escapes THEN "callback_raised"
                     ELSE IF ~breaks THEN "pending"
                     ELSE IF h = "ok" THEN "succeeded"
                     ELSE IF h = "FloodWaitError" THEN "abandoned_flood"
                     ELSE IF h = "RPCError" THEN "abandoned_rpc"
                     ELSE "abandoned_exc"
       /\ UNCHANGED << config, skipped_by_filter, d, title, pulled, returned >>

Next ==
  \/ \E nd \in DialogPool : Pull(nd)
  \/ Exhausted
  \/ \E r1 \in FirstAnswers(dry_run) :
       \E r2 \in SecondAnswers(d, dry_run, r1) :
         \E cbRaises \in CallbackOutcomes(on_floodwait,
                                          ProcessDialog(d, dry_run, r1, r2).result) :
           Attempt(r1, r2, cbRaises)

Spec == Init /\ [][Next]_vars

\* The runs progress is checked on: those of Init with the default filter
\* or the filter that lets only broadcast channels pass.
FairInit ==
  /\ Init
  /\ f \in {DefaultFilter, CleanFilter(<< TChannel >>, NoDate, Empty, << >>)}

\* The coroutine is run to its end by the event loop: whenever a step of
\* clean_all_dialogs is possible, one is eventually taken (the source
\* yields or ends, the client answers, sleeps end, the callback returns
\* or raises).
FairSpec == FairInit /\ [][Next]_vars /\ WF_vars(Next)

\* ------------------------------------- client.process_dialog and __main__
\* The try block of client.process_dialog with the helpers of client.py,
\* each of which returns at once in a dry run and else sends one request:
\* r1 answers the first request, r2 the fallback request of a legacy group.
process_dialog_try(entity, dry, r1, r2) ==
  LET Send(req, r) ==
        IF dry THEN Ran(<< >>, Ok)
        ELSE Ran(<< Call(req, entity.id), Answered(r) >>, r)
  IN IF entity.cls = "Channel" THEN Send("LeaveChannelRequest", r1)
     ELSE IF entity.cls = "Chat" THEN
       LET first == Send("DeleteChatUserRequest", r1) IN
         IF IsRPCError(first.result)
         THEN LET fb == Send("client.delete_dialog", r2) IN
                Ran(first.calls \o fb.calls, fb.result)
         ELSE first
     ELSE IF entity.cls = "User" THEN Send("DeleteHistoryRequest(revoke=True)", r1)
     ELSE Send("client.delete_dialog", r1)

\* Mutant: process_dialog has no "except Exception" clause.
process_dialog_NoCatchAll(entity, dry, r1, r2) ==
  LET ran == process_dialog_try(entity, dry, r1, r2)
  IN [calls |-> ran.calls,
      exc |-> ran.result,
      outcome |-> IF ran.result.type = "ok" THEN "True"
                  ELSE IF IsRPCError(ran.result) THEN "False"
                  ELSE "raised"]

\* client.process_dialog: "return True" at the end of each branch, and
\* "return False" in the clauses except FloodWaitError, except RPCError and
\* except Exception; an exception none of them catches is raised.
process_dialog(entity, dry, r1, r2) ==
  LET ran == process_dialog_try(entity, dry, r1, r2)
  IN [calls |-> ran.calls,
      exc |-> ran.result,
      outcome |-> IF ran.result.type = "ok" THEN "True"
                  ELSE IF ran.result.type = "FloodWaitError" THEN "False"
                  ELSE IF IsRPCError(ran.result) THEN "False"
                  ELSE IF ran.result.type = "Exception" THEN "False"
                  ELSE "raised"]

\* title = d.name or "(sem nome)"
MainTitle(dlg) ==
  IF dlg.name # Empty THEN dlg.name
  ELSE << "(", "s", "e", "m", " ", "n", "o", "m", "e", ")" >>

\* main() starts its loop: the arguments --dry-run and --limit are parsed,
\* processed = 0; it has no filter and no callback.
InitMain ==
  /\ dry_run \in BOOLEAN
  /\ limit \in 0..MaxLimit
  /\ f = DefaultFilter
  /\ on_floodwait = FALSE
  /\ pc = "iter"
  /\ processed = 0
  /\ skipped_by_filter = 0
  /\ d = NoDialog
  /\ title = Empty
  /\ attempt = 0
  /\ success = FALSE
  /\ pulled = 0
  /\ attempted = 0
  /\ executions = 0
  /\ callbacks = << >>
  /\ last = << >>
  /\ verdict = "none"
  /\ journal = << >>
  /\ returned = "none"
  /\ NoDownload

\* One turn of "async for d in client.iter_dialogs()" of main(), up to the
\* retry loop: the limit test, title, entity, index, attempt = 0.
MainPull(nd) ==
  /\ pc = "iter"
  /\ UNCHANGED download
  /\ pulled < MaxDialogs
  /\ pulled' = pulled + 1
  /\ d' = nd
  /\ executions' = 0
  /\ last' = << >>
  /\ returned' = "none"
  /\ UNCHANGED << config, processed, skipped_by_filter, success, attempted,
                  callbacks, journal >>
  /\ IF LimitReached(limit, processed)
     THEN /\ pc' = "done"
          /\ verdict' = "discarded"
          /\ UNCHANGED << title, attempt >>
     ELSE /\ title' = MainTitle(nd)
          /\ attempt' = 0
          /\ pc' = "try"
          /\ verdict' = "pending"

\* The source is exhausted: main() logs the count and returns.
MainExhausted ==
  /\ pc = "iter"
  /\ UNCHANGED download
  /\ pc' = "done"
  /\ UNCHANGED << config, locals, ghost, returned >>

\* One turn of "while True" of main(): process_dialog is awaited; when it
\* returns (whatever it returns) the pacing sleep follows, processed is
\* incremented and the loop is left; when it raises, the except clauses of
\* main() handle the exception.  int(e.seconds) raises for a missing value.
MainAttempt(r1, r2) ==
  /\ pc = "try"
  /\ UNCHANGED download
  /\ LET pd == process_dialog(d, dry_run, r1, r2)
         raised == pd.outcome = "raised"
         h == IF raised THEN Handler(pd.exc) ELSE "ok"
         n == IF h = "FloodWaitError" THEN attempt + 1 ELSE attempt
         escapes == h = "FloodWaitError" /\ pd.exc.seconds = NoSeconds
         sleeps == IF h = "ok" THEN << PacingSleep >>
                   ELSE IF h = "FloodWaitError" /\ ~escapes
                        THEN << FloodSleep(pd.exc.seconds) >>
                   ELSE << >>
         caught == IF h = "ok" THEN << >> ELSE << Caught(pd.exc, h) >>
         breaks == HandlerBreaks(h, n)
     IN
       /\ executions' = executions + 1
       /\ attempted' = IF executions = 0 THEN attempted + 1 ELSE attempted
       /\ last' = pd.calls \o caught \o sleeps
       /\ returned' = pd.outcome
       /\ attempt' = n
       /\ pc' = IF escapes THEN "raised" ELSE IF breaks THEN "iter" ELSE "try"
       /\ processed' = IF h = "ok" THEN processed + 1 ELSE processed
       /\ verdict' = IF escapes THEN "handler_raised"
                     ELSE IF ~breaks THEN "pending"
                     ELSE IF h = "ok" THEN "counted"
                     ELSE "not_counted"
       /\ UNCHANGED << config, skipped_by_filter, d, title, success, pulled,
                       callbacks, journal >>

NextMain ==
  \/ \E nd \in DialogPool : MainPull(nd)
  \/ MainExhausted
  \/ \E r1 \in FirstAnswers(dry_run) :
       \E r2 \in SecondAnswers(d, dry_run, r1) : MainAttempt(r1, r2)

SpecMain == InitMain /\ [][NextMain]_vars

\* ------------------------------------------------ download_media_parallel
\* The media a message carries: "none" for a message without media,
\* "photo" for MessageMediaPhoto, "video" for MessageMediaVideo, and
\* "sticker" for MessageMediaSticker.
MessageKinds == {"none", "photo", "video", "sticker"}

\* All sequences over S of length at most n.
RECURSIVE SeqsUpTo(_, _)
SeqsUpTo(S, n) ==
  IF n = 0 THEN {<< >>}
  ELSE LET shorter == SeqsUpTo(S, n - 1)
       IN shorter \cup {Append(q, x) : q \in {r \in shorter : Len(r) = n - 1}, x \in S}

\* media_types: None, or a list of type names.
NoMediaTypes == [given |-> FALSE, list |-> {}]
MediaTypeFilters == {NoMediaTypes, [given |-> TRUE, list |-> {"photo"}]}

\* The keys of counts other than "total".
TypeKeys ==
  {"photo", "video", "document", "audio", "voice", "sticker", "gif", "other"}

\* _determine_media_type_and_ext(message): the isinstance tests are made in
\* the order Photo, Video/GeoLive, Document, Audio, Voice, Sticker.  The
\* name MessageMediaVoice is bound nowhere in backup.py, so a message that
\* passes the first four tests raises NameError at the fifth.
determine_media_type(kind) ==
  IF kind = "photo" THEN "photo"
  ELSE IF kind = "video" THEN "video"
  ELSE IF kind = "document" THEN "document"
  ELSE IF kind = "audio" THEN "audio"
  ELSE "NameError"

\* "media_types is None or media_type in media_types"
TypeWanted(mt, types) == ~types.given \/ mt \in types.list

\* The indices m..Len(msgs) of the messages for which the collecting loop
\* appends a coroutine, up to the end or to the first NameError.
RECURSIVE Collected(_, _, _)
Collected(msgs, types, m) ==
  IF m > Len(msgs) THEN [tasks |-> << >>, raised |-> FALSE]
  ELSE IF msgs[m] = "none" THEN Collected(msgs, types, m + 1)
  ELSE IF determine_media_type(msgs[m]) = "NameError"
       THEN [tasks |-> << >>, raised |-> TRUE]
  ELSE LET rest == Collected(msgs, types, m + 1)
       IN IF TypeWanted(determine_media_type(msgs[m]), types)
          THEN [tasks |-> << m >> \o rest.tasks, raised |-> rest.raised]
          ELSE rest

\* counts before any result is added.
ZeroCounts == [k \in TypeKeys \cup {"total"} |-> 0]

\* "for result in results": a result that is None is passed over, any
\* other one adds 1 to its type and to "total".
RECURSIVE Tally(_, _, _)
Tally(results, i, c) ==
  IF i > Len(results) THEN c
  ELSE IF results[i] = "None" THEN Tally(results, i + 1, c)
  ELSE Tally(results, i + 1,
             [c EXCEPT ![results[i]] = @ + 1, !["total"] = @ + 1])

\* Mutant: the coroutines do not wait for the semaphore.
SemaphoreFree_Unbounded(v) == TRUE

\* "async with semaphore" can be entered without waiting.
SemaphoreFree(v) == v > 0

\* download_media_parallel is called: counts is zeroed and the semaphore
\* is created.
InitDownload ==
  /\ dry_run = FALSE
  /\ limit = 0
  /\ f = DefaultFilter
  /\ on_floodwait = FALSE
  /\ pc = "none"
  /\ processed = 0
  /\ skipped_by_filter = 0
  /\ d = NoDialog
  /\ title = Empty
  /\ attempt = 0
  /\ success = FALSE
  /\ pulled = 0
  /\ attempted = 0
  /\ executions = 0
  /\ callbacks = << >>
  /\ last = << >>
  /\ verdict = "none"
  /\ journal = << >>
  /\ returned = "none"
  /\ messages \in SeqsUpTo(MessageKinds, MaxMessages)
  /\ media_types \in MediaTypeFilters
  /\ max_concurrent \in 1..MaxConcurrent
  /\ dpc = "collect"
  /\ download_tasks = << >>
  /\ task = << >>
  /\ semaphore = max_concurrent
  /\ counts = ZeroCounts

\* "async for message in client.iter_messages(...)": one coroutine is made
\* for every message with media of a wanted type; then gather starts them.
Collect ==
  /\ dpc = "collect"
  /\ LET c == Collected(messages, media_types, 1)
     IN IF c.raised
        THEN /\ dpc' = "raised"
             /\ UNCHANGED << download_tasks, task >>
        ELSE /\ dpc' = "gather"
             /\ download_tasks' = c.tasks
             /\ task' = [i \in 1..Len(c.tasks) |-> "created"]
  /\ UNCHANGED << messages, media_types, max_concurrent, semaphore, counts >>
  /\ UNCHANGED << config, pc, locals, ghost, returned >>

\* Coroutine i enters "async with semaphore" and runs up to the await of
\* client.download_media, or returns None when its type is not wanted.
Enter(i) ==
  /\ dpc = "gather"
  /\ task[i] = "created"
  /\ SemaphoreFree(semaphore)
  /\ IF TypeWanted(determine_media_type(messages[download_tasks[i]]), media_types)
     THEN /\ task' = [task EXCEPT ![i] = "running"]
          /\ semaphore' = semaphore - 1
     ELSE /\ task' = [task EXCEPT ![i] = "None"]
          /\ UNCHANGED semaphore
  /\ UNCHANGED << messages, media_types, max_concurrent, dpc, download_tasks, counts >>
  /\ UNCHANGED << config, pc, locals, ghost, returned >>

\* client.download_media of coroutine i returns (ok) or raises an
\* Exception; the coroutine returns its media type or None and leaves
\* "async with", releasing the semaphore.
Leave(i, ok) ==
  /\ dpc = "gather"
  /\ task[i] = "running"
  /\ task' = [task EXCEPT ![i] =
                IF ok THEN determine_media_type(messages[download_tasks[i]])
                ELSE "None"]
  /\ semaphore' = semaphore + 1
  /\ UNCHANGED << messages, media_types, max_concurrent, dpc, download_tasks, counts >>
  /\ UNCHANGED << config, pc, locals, ghost, returned >>

\* asyncio.gather returns once every coroutine has returned; the results
\* are counted and counts is returned.
Gathered ==
  /\ dpc = "gather"
  /\ \A i \in DOMAIN task : task[i] \notin {"created", "running"}
  /\ counts' = Tally(task, 1, counts)
  /\ dpc' = "returned"
  /\ UNCHANGED << messages, media_types, max_concurrent, download_tasks, task, semaphore >>
  /\ UNCHANGED << config, pc, locals, ghost, returned >>

NextDownload ==
  \/ Collect
  \/ \E i \in DOMAIN task : Enter(i)
  \/ \E i \in DOMAIN task : \E ok \in BOOLEAN : Leave(i, ok)
  \/ Gathered

SpecDownload == InitDownload /\ [][NextDownload]_vars

\* ----------------------------------------------------------- observations
Abandoned == {"abandoned_flood", "abandoned_rpc", "abandoned_exc"}

\* The events of the latest step that are of kind ev.
EventsOf(ev) == SelectSeq(last, LAMBDA e : e.ev = ev)

\* No conversation is inside the retry loop.
BetweenConversations == pc \in {"iter", "done"}

\* C1: every conversation pulled from the source is counted in exactly one
\* of processed / skipped, whatever the outcome of its action; so whenever
\* no conversation is in progress, and at return, processed + skipped is the
\* number of conversations pulled.
C1_CountedExactlyOnce ==
  BetweenConversations => processed + skipped_by_filter = pulled

\* C2: a conversation that passes the filter and whose action ends Abandoned
\* increments processed as a Succeeded one does: for a single such
\* conversation the run returns processed = 1.
C2_AbandonedIsProcessed ==
  (pc = "done" /\ pulled = 1 /\ verdict \in Abandoned) => processed = 1

\* C3: in a dry run no request ever reaches the client, whatever the kind of
\* the conversation, and every conversation that passes the filter is
\* counted as processed by its first attempt.
C3_DryRunPurity ==
  dry_run =>
    /\ EventsOf("call") = << >>
    /\ EventsOf("except") = << >>
    /\ verdict \in {"none", "skipped", "discarded", "pending", "succeeded"}
    /\ verdict = "pending" => pc = "try" /\ executions = 0
    /\ verdict = "succeeded" => executions = 1
    /\ processed = attempted
    /\ (d # NoDialog /\ verdict # "discarded" /\ DialogMatchesFilter(d, Title(d), f)) =>
         verdict \in {"pending", "succeeded"}
    /\ BetweenConversations =>
         pulled = processed + skipped_by_filter
                  + (IF verdict = "discarded" THEN 1 ELSE 0)

\* Reached: a dry run in which a legacy group was the second conversation
\* counted as processed.
C3_Witness ==
  /\ dry_run
  /\ d.cls = "Chat"
  /\ verdict = "succeeded"
  /\ processed = 2

\* The cases the whitelist claim quantifies over: the same exclude list with
\* every combination of the other three predicates.
C4_OtherPredicates ==
  [types : {<< >>, << TChannel >>, << TGroup, TUser >>, << TUnknown >>},
   before_date : {NoDate, Naive(0), Naive(9), Aware(0, 0), Aware(9, 0)},
   name_pattern : {Empty, <<"a">>, <<"z">>},
   whitelist : {f.whitelist}]

\* The identifier as a string, the public handle or the display name is an
\* entry of the exclude list.
C4_Listed ==
  \E i \in 1..Len(f.whitelist) :
    f.whitelist[i] \in {IdStr(d.id), d.username, Title(d)}

\* C4: a conversation whose identifier, public handle or display name is an
\* entry of the exclude list is rejected by the filter whatever the other
\* three predicates are, is counted as skipped, and no action is run on it.
C4_WhitelistProtects ==
  (d # NoDialog /\ verdict # "discarded" /\ C4_Listed) =>
    /\ \A flt \in C4_OtherPredicates : ~DialogMatchesFilter(d, Title(d), flt)
    /\ verdict = "skipped"
    /\ skipped_by_filter >= 1
    /\ executions = 0
    /\ last = << >>
    /\ pc # "try"

\* Reached: a conversation listed by its display name only, skipped under a
\* filter whose other predicates all accept it.
C4_Witness ==
  /\ d # NoDialog
  /\ verdict = "skipped"
  /\ C4_Listed
  /\ ~InList(IdStr(d.id), f.whitelist)
  /\ ~InList(d.username, f.whitelist)
  /\ f.types # << >>
  /\ DialogMatchesFilter(d, Title(d), [f EXCEPT !.whitelist = << >>])

\* C5: with limit > 0 processed never exceeds limit; a conversation rejected
\* by the filter leaves processed unchanged; the run returns with fewer than
\* limit processed only because the source ran out; with limit = 0 the loop
\* never stops on the limit.
C5_LimitCapsProcessed ==
  /\ [](limit > 0 => processed <= limit)
  /\ []((pc = "done" /\ limit > 0 /\ processed < limit) => verdict # "discarded")
  /\ [](limit = 0 => verdict # "discarded")
  /\ [][skipped_by_filter' # skipped_by_filter =>
          /\ processed' = processed
          /\ pc' = "iter"]_vars

\* Reached: a run with limit 1 that returned 1 processed after skipping two
\* conversations on the way.
C5_Witness ==
  /\ pc = "done"
  /\ limit = 1
  /\ processed = 1
  /\ skipped_by_filter = 2

\* C6: with limit > 0 at no point have more than limit conversations had an
\* action attempted, whether it succeeded, was abandoned or failed.
C6_LimitCapsAttempted ==
  limit > 0 => attempted <= limit

C8_RetryBound ==
  /\ (pc = "try" /\ executions = attempt) => executions < 5
  /\ verdict = "abandoned_flood" =>
       /\ executions = 5
       /\ pc # "try"
       /\ Len(callbacks) = (IF on_floodwait THEN 5 ELSE 0)
       /\ \A i \in 1..Len(callbacks) :
            /\ callbacks[i].attempt = i
            /\ callbacks[i].max = 5
            /\ callbacks[i].label = Title(d)

\* Reached: a conversation abandoned for rate limiting with a callback
\* supplied.
C8_Witness ==
  /\ verdict = "abandoned_flood"
  /\ on_floodwait
  /\ Len(callbacks) = 5

\* The wait a rate-limit error advertising s must produce.
C9_Expected(s) == IF s = NoSeconds \/ s < 5 THEN 5 ELSE s

\* C9: every rate-limit wait lasts max(5, advertised seconds), also when the
\* error advertises 0 or nothing, and the wait passed to the callback is
\* that same value, never below 5.
C9_MinimumBackoff ==
  LET caught == SelectSeq(last, LAMBDA e : e.ev = "except" /\ e.req = "FloodWaitError")
      waits == EventsOf("asyncio.sleep")
      cbs == EventsOf("on_floodwait")
  IN
    /\ Len(caught) <= 1
    /\ Len(waits) <= Len(caught)
    /\ Len(caught) = 1 =>
         /\ pc # "raised" => Len(waits) = 1
         /\ on_floodwait => Len(cbs) = 1
    /\ \A i \in 1..Len(waits) :
         /\ waits[i].secs = C9_Expected(caught[1].secs)
         /\ waits[i].secs >= 5
    /\ \A i \in 1..Len(cbs) :
         /\ Len(caught) = 1
         /\ cbs[i].secs = C9_Expected(caught[1].secs)
         /\ cbs[i].secs >= 5

\* Reached: a rate-limit error advertising 0 seconds followed by a wait of
\* 5, announced to the callback.
C9_Witness ==
  /\ \E i \in 1..Len(last) :
       last[i].ev = "except" /\ last[i].req = "FloodWaitError" /\ last[i].secs = 0
  /\ \E i \in 1..Len(last) : last[i].ev = "asyncio.sleep" /\ last[i].secs = 5
  /\ \E i \in 1..Len(last) : last[i].ev = "on_floodwait" /\ last[i].secs = 5

\* C10: when the action raises a permanent provider error or an unexpected
\* exception, the conversation is abandoned there: the action is not run
\* again, no rate-limit wait is performed and the callback is not invoked;
\* raised by the first attempt, it leaves exactly one attempt and no
\* callback invocation for the conversation.
C10_PermanentErrorNoRetry ==
  (\E i \in 1..Len(last) :
     last[i].ev = "except" /\ last[i].req \in {"RPCError", "Exception"}) =>
    /\ pc # "try"
    /\ verdict \in {"abandoned_rpc", "abandoned_exc"}
    /\ EventsOf("asyncio.sleep") = << >>
    /\ EventsOf("safe_sleep") = << >>
    /\ EventsOf("on_floodwait") = << >>
    /\ executions = attempt + 1
    /\ Len(callbacks) <= attempt
    /\ attempt = 0 => (executions = 1 /\ callbacks = << >>)
    /\ ~success

\* Reached: a channel whose first LeaveChannel request was rejected with a
\* permanent error, the loop being ready for the next conversation.
C10_Witness ==
  /\ verdict = "abandoned_rpc"
  /\ d.cls = "Channel"
  /\ executions = 1
  /\ pc = "iter"
  /\ pulled < MaxDialogs

\* C11: no error of the client raised while a conversation is processed
\* leaves the retry loop or ends the run: after any attempt the loop goes on
\* (only an exception of the callback itself ends the run), and with
\* limit = 0 every conversation pulled that passes the filter has its action
\* attempted, whatever happened to the conversations before it.
C11_FailureIsolation ==
  /\ [][executions' = executions + 1 =>
          /\ pc' \in {"iter", "try", "raised"}
          /\ pc' = "raised" => EventsOf("on_floodwait")' # << >>
          /\ EventsOf("except")' # << >> /\ pc' # "raised" =>
               (pc' = "iter" <=> verdict' \in Abandoned)]_vars
  /\ [][(pc = "iter" /\ limit = 0 /\ pulled' = pulled + 1) =>
          IF DialogMatchesFilter(d', Title(d'), f)
          THEN pc' = "try" ELSE pc' = "iter"]_vars
  /\ []((limit = 0 /\ pc # "raised") =>
          attempted = pulled - skipped_by_filter
                      - (IF pc = "try" /\ executions = 0 THEN 1 ELSE 0))

\* Reached: with no limit, a third conversation attempted and succeeded
\* after the two before it were abandoned.
C11_Witness ==
  /\ limit = 0
  /\ pulled = 3
  /\ attempted = 3
  /\ skipped_by_filter = 0
  /\ processed = 1
  /\ verdict = "succeeded"

\* The request the kind of a conversation calls for.
C12_Request(dlg) ==
  IF dlg.cls = "Channel" THEN Call("LeaveChannelRequest", dlg.id)
  ELSE IF dlg.cls = "Chat" THEN Call("DeleteChatUserRequest", dlg.id)
  ELSE Call("DeleteHistoryRequest(revoke=True)", dlg.id)

\* The classes of the dialogs the journal has seen pulled.
C12_Source ==
  LET pulls == SelectSeq(journal, LAMBDA e : e.ev = "pull")
  IN [i \in 1..Len(pulls) |-> pulls[i].req]

\* C12: when not a dry run, every attempt on a channel, legacy group or
\* direct peer starts with the request of its kind (LeaveChannel,
\* RemoveSelfFromGroup, DeleteHistory with revoke); and for the source
\* [Channel, LegacyGroup, DirectPeer] with the default filter and no limit
\* exactly these three requests are sent, in this order, and the run returns
\* processed 3, skipped 0.
C12_KindToAction ==
  /\ (~dry_run /\ executions >= 1 /\ d.cls \in {"Channel", "Chat", "User"}) =>
       /\ EventsOf("call") # << >>
       /\ EventsOf("call")[1] = C12_Request(d)
       /\ d.cls # "Chat" => Len(EventsOf("call")) = 1
  /\ (pc = "done" /\ ~dry_run /\ limit = 0 /\ f = DefaultFilter
        /\ C12_Source = << "Channel", "Chat", "User" >>) =>
       /\ \E c \in {1, 2} :
            SelectSeq(journal, LAMBDA e : e.ev = "call") =
              << Call("LeaveChannelRequest", c),
                 Call("DeleteChatUserRequest", 30),
                 Call("DeleteHistoryRequest(revoke=True)", 4) >>
       /\ processed = 3
       /\ skipped_by_filter = 0

\* Reached: the end-to-end scenario, returned.
C12_Witness ==
  /\ pc = "done"
  /\ ~dry_run
  /\ limit = 0
  /\ f = DefaultFilter
  /\ C12_Source = << "Channel", "Chat", "User" >>
  /\ processed = 3

\* The latest attempt acted on a conversation of unknown kind, not dry.
C13_Case == ~dry_run /\ d.cls = "Other" /\ executions >= 1

\* C13: for a conversation of kind Unknown the action is the one of a
\* direct peer: DeleteHistory on that peer with revoke = true, issued once
\* when this is not a dry run.
C13_UnknownDeleteHistory ==
  C13_Case =>
    EventsOf("call") = << Call("DeleteHistoryRequest(revoke=True)", d.id) >>

\* C13 as the code has it: for a conversation of kind Unknown the action is
\* the client's generic delete-dialog call on the entity, issued once per
\* attempt when this is not a dry run and never in a dry run; no
\* DeleteHistory request is built for it.
C13_UnknownGenericDelete ==
  /\ C13_Case => EventsOf("call") = << Call("client.delete_dialog", d.id) >>
  /\ (dry_run /\ d.cls = "Other") => EventsOf("call") = << >>

\* Reached: a conversation of unknown kind processed with success.
C13_Witness == C13_Case /\ verdict = "succeeded" /\ processed >= 1

\* The latest attempt sent DeleteChatUserRequest for a legacy group and the
\* client answered it with the exception type.
C14_Rejected(type) ==
  /\ ~dry_run
  /\ d.cls = "Chat"
  /\ Len(last) >= 2
  /\ last[1] = Call("DeleteChatUserRequest", d.id)
  /\ last[2] = Answered([type |-> type, seconds |-> 0])

\* C14: when DeleteChatUserRequest on a legacy group is rejected with a
\* permanent error, the generic delete-dialog call follows exactly once for
\* the same group in the same attempt; when that call succeeds the
\* conversation is counted as processed, nothing is caught, no callback and
\* no rate-limit wait occurs, and the retry loop is left (no second
\* DeleteChatUserRequest).
C14_LegacyFallback ==
  /\ [](C14_Rejected("RPCError") =>
          /\ Len(last) >= 4
          /\ last[3] = Call("client.delete_dialog", d.id)
          /\ last[4].ev = "answer"
          /\ Len(EventsOf("call")) = 2
          /\ last[4] = Answered(Ok) =>
               /\ verdict = "succeeded"
               /\ EventsOf("except") = << >>
               /\ EventsOf("on_floodwait") = << >>
               /\ EventsOf("asyncio.sleep") = << >>
               /\ pc \in {"iter", "done"})
  /\ [][(executions' = executions + 1 /\ C14_Rejected("RPCError")'
           /\ last'[4] = Answered(Ok)) =>
          /\ processed' = processed + 1
          /\ attempt' = attempt
          /\ callbacks' = callbacks]_vars

\* Reached: the fallback of a legacy group succeeded after a permanent
\* error.
C14_Witness ==
  /\ C14_Rejected("RPCError")
  /\ last[4] = Answered(Ok)
  /\ verdict = "succeeded"
  /\ processed = 1

\* C15: a rate-limit error raised by DeleteChatUserRequest never triggers
\* the generic delete-dialog fallback; it reaches the retry controller
\* (the FloodWaitError clause), which invokes the callback, waits and goes
\* round the loop again for the same group while attempts remain.
C15_NoFallbackOnRateLimit ==
  C14_Rejected("FloodWaitError") =>
    /\ EventsOf("call") = << Call("DeleteChatUserRequest", d.id) >>
    /\ Len(EventsOf("except")) = 1
    /\ EventsOf("except")[1].req = "FloodWaitError"
    /\ on_floodwait => Len(EventsOf("on_floodwait")) = 1
    /\ (pc # "raised" /\ attempt < max_retries) => pc = "try"

\* The client answered the request of the conversation's action with a
\* rate limit in the latest attempt.
C16_RateLimited ==
  /\ Len(last) >= 2
  /\ last[1].ev = "call"
  /\ last[2].ev = "answer"
  /\ last[2].req = "FloodWaitError"

\* C16: a conversation whose action is rate-limited k times (1 <= k <= 4)
\* and then succeeds has the action executed k + 1 times on that same
\* conversation and the callback invoked k times with attempt = 1..k, is
\* counted once in processed, and no other conversation is pulled in
\* between: every rate limit answered to the action is counted as an
\* attempt and reported to the callback, the loop stays on the conversation
\* while it retries, and a conversation that succeeds after k counted rate
\* limits was executed k + 1 times.
C16_RecoveryAfterRateLimit ==
  /\ [][(executions' = executions + 1 /\ C16_RateLimited') =>
          /\ attempt' = attempt + 1
          /\ on_floodwait =>
               /\ Len(callbacks') = attempt'
               /\ callbacks'[attempt'].attempt = attempt'
          /\ verdict' # "succeeded"]_vars
  /\ [][pc = "try" =>
          /\ d' = d
          /\ pulled' = pulled
          /\ executions' = executions + 1]_vars
  /\ [][(pc = "try" /\ verdict' = "succeeded") =>
          /\ processed' = processed + 1
          /\ executions' = attempt' + 1
          /\ attempt' <= max_retries - 1
          /\ on_floodwait =>
               /\ Len(callbacks') = attempt'
               /\ \A i \in 1..attempt' : callbacks'[i].attempt = i]_vars

\* A conversation has been pulled and put through the filter.
Filtered == verdict \notin {"none", "discarded"}

\* The last-activity date is strictly before the cutoff.  Two aware dates
\* are compared as instants and two naive ones as wall clocks; a naive
\* cutoff stands for UTC against an aware date, and against a naive date
\* only the wall clock of the cutoff counts.
C17_StrictlyBefore(date, cutoff) ==
  IF date.aware
  THEN date.wall - date.off < cutoff.wall - (IF cutoff.aware THEN cutoff.off ELSE 0)
  ELSE date.wall < cutoff.wall

\* The cutoffs the predicate is tried with on every conversation.
C17_Cutoffs ==
  {Naive(w) : w \in 2..7} \cup {Aware(w, o) : w \in 2..7, o \in 0..1}

\* The predicates of the filter other than the cutoff let the dialog pass.
C17_OthersPass(dlg, flt) ==
  DialogMatchesFilter(dlg, Title(dlg), [flt EXCEPT !.before_date = NoDate])

\* C17: with a cutoff, a conversation not otherwise excluded passes if and
\* only if it has no last-activity date or that date is strictly before the
\* cutoff; one whose last activity is at or after the cutoff is excluded
\* and counted as skipped.
C17_CutoffPredicate ==
  /\ [](d # NoDialog =>
          \A c \in C17_Cutoffs :
            DialogMatchesFilter(d, Title(d), CleanFilter(<< >>, c, Empty, << >>))
              <=> (~d.date.has \/ C17_StrictlyBefore(d.date, c)))
  /\ []((Filtered /\ f.before_date.has /\ C17_OthersPass(d, f)) =>
          (verdict = "skipped"
             <=> (d.date.has /\ ~C17_StrictlyBefore(d.date, f.before_date))))
  /\ [][(pulled' = pulled + 1 /\ verdict' = "skipped") =>
          /\ skipped_by_filter' = skipped_by_filter + 1
          /\ processed' = processed
          /\ pc' = "iter"]_vars

\* Reached: a conversation whose last activity equals the cutoff, skipped
\* for that reason alone.
C17_Witness ==
  /\ f.before_date.has
  /\ C17_OthersPass(d, f)
  /\ d.date = f.before_date
  /\ verdict = "skipped"
  /\ skipped_by_filter = 1

\* The kind of a conversation as the classification defines it, as a tag of
\* the allow-list: a Channel is a channel whether broadcast or mega-group.
C18_Kind(dlg) ==
  IF dlg.cls = "Channel" THEN TChannel
  ELSE IF dlg.cls = "Chat" THEN TGroup
  ELSE IF dlg.cls = "User" THEN TUser
  ELSE TUnknown

\* The tag the allow-list is matched against: "channel" for a broadcast
\* channel only, "group" for a mega-group and for a legacy group.
C18_Tag(dlg) ==
  IF dlg.cls = "Channel" /\ dlg.broadcast THEN TChannel
  ELSE IF dlg.cls \in {"Channel", "Chat"} THEN TGroup
  ELSE IF dlg.cls = "User" THEN TUser
  ELSE TUnknown

\* The allow-lists the predicate is tried with on every conversation.
C18_Lists ==
  { << >>, << TChannel >>, << TGroup >>, << TUser >>, << TUnknown >>,
    << TChannel, TUser >>, << TGroup, TUnknown >> }

\* The predicates of the filter other than the allow-list let it pass.
C18_OthersPass(dlg, flt) ==
  DialogMatchesFilter(dlg, Title(dlg), [flt EXCEPT !.types = << >>])

\* C18: with a non-empty allow-list a conversation is included only if its
\* classification kind is in the list, so a broadcast channel and a
\* mega-group are accepted or rejected alike; an empty list restricts
\* nothing.
C18_KindAllowList ==
  /\ d # NoDialog =>
       \A ts \in C18_Lists :
         DialogMatchesFilter(d, Title(d), CleanFilter(ts, NoDate, Empty, << >>))
           <=> (ts = << >> \/ InList(C18_Kind(d), ts))
  /\ (Filtered /\ C18_OthersPass(d, f)) =>
       (verdict = "skipped"
          <=> (f.types # << >> /\ ~InList(C18_Kind(d), f.types)))

\* C18 as the code has it: the allow-list is matched against the filter's
\* own tag, which is "channel" for a broadcast channel only and "group" for
\* a mega-group as for a legacy group ("user" and "unknown" as in the
\* classification); an empty list restricts nothing.
C18_TagAllowList ==
  /\ d # NoDialog =>
       \A ts \in C18_Lists :
         DialogMatchesFilter(d, Title(d), CleanFilter(ts, NoDate, Empty, << >>))
           <=> (ts = << >> \/ InList(C18_Tag(d), ts))
  /\ (Filtered /\ C18_OthersPass(d, f)) =>
       (verdict = "skipped"
          <=> (f.types # << >> /\ ~InList(C18_Tag(d), f.types)))

\* Reached: a mega-group skipped by an allow-list that holds "channel".
C18_Witness ==
  /\ d.cls = "Channel"
  /\ ~d.broadcast
  /\ f.types = << TChannel >>
  /\ C18_OthersPass(d, f)
  /\ verdict = "skipped"
  /\ skipped_by_filter >= 1

\* C19: the default filter includes every conversation: skipped stays 0,
\* no conversation is skipped, and every conversation pulled before the
\* limit is reached has its action attempted.
C19_DefaultFilterIncludesAll ==
  /\ [](f = DefaultFilter =>
          /\ skipped_by_filter = 0
          /\ verdict # "skipped"
          /\ BetweenConversations =>
               attempted = pulled - (IF verdict = "discarded" THEN 1 ELSE 0))
  /\ [][(f = DefaultFilter /\ pulled' = pulled + 1 /\ ~LimitReached(limit, processed)) =>
          pc' = "try"]_vars
  /\ [](d # NoDialog => DialogMatchesFilter(d, Title(d), DefaultFilter))

\* Reached: a run with the default filter returned after attempting each
\* of its three conversations of different kinds.
C19_Witness ==
  /\ f = DefaultFilter
  /\ pc = "done"
  /\ pulled = 3
  /\ attempted = 3
  /\ skipped_by_filter = 0
  /\ d.cls = "Other"

\* The answer of the client to the last request of the latest call, if any.
C20_FinalAnswer ==
  LET answers == EventsOf("answer")
  IN IF answers = << >> THEN "ok" ELSE answers[Len(answers)].req

\* C20: client.process_dialog never raises to its caller: it returns True
\* when the action of the entity's kind, or the fallback of a legacy group,
\* completes, and False when the client call fails with a rate limit, any
\* other RPC error or an unexpected exception, for every kind of entity,
\* dry run or not.
C20_ProcessDialogNeverRaises ==
  /\ \A e \in DialogPool, dry \in BOOLEAN, r1 \in Responses, r2 \in Responses :
       process_dialog(e, dry, r1, r2).outcome \in {"True", "False"}
  /\ executions >= 1 =>
       /\ returned \in {"True", "False"}
       /\ pc # "raised"
       /\ EventsOf("except") = << >>
       /\ returned = "True" <=> C20_FinalAnswer = "ok"
       /\ returned = "False" <=>
            C20_FinalAnswer \in {"FloodWaitError", "RPCError", "Exception"}
       /\ dry_run => returned = "True" /\ EventsOf("call") = << >>
       /\ (d.cls # "Chat" /\ ~dry_run) => Len(EventsOf("call")) = 1

\* Reached: process_dialog returned False for a channel whose request was
\* answered with a rate limit.
C20_Witness ==
  /\ executions = 1
  /\ ~dry_run
  /\ d.cls = "Channel"
  /\ C20_FinalAnswer = "FloodWaitError"
  /\ returned = "False"

\* The latest attempt ended in the FloodWaitError clause of the retry loop.
C21_RateLimited ==
  /\ Len(EventsOf("except")) = 1
  /\ EventsOf("except")[1].req = "FloodWaitError"

\* C21: on a rate limit the attempt counter is incremented first; when it
\* has reached 5 the conversation is abandoned with no wait and no callback
\* for that error; only below 5 does the controller call the callback, wait
\* and retry.
C21_NoWaitOnLastAttempt ==
  /\ [][(executions' = executions + 1 /\ C21_RateLimited') =>
          attempt' = attempt + 1]_vars
  /\ []((C21_RateLimited /\ attempt >= max_retries) =>
          /\ EventsOf("on_floodwait") = << >>
          /\ EventsOf("asyncio.sleep") = << >>
          /\ verdict = "abandoned_flood")
  /\ []((C21_RateLimited /\ attempt < max_retries /\ pc # "raised") =>
          /\ on_floodwait => Len(EventsOf("on_floodwait")) = 1
          /\ Len(EventsOf("asyncio.sleep")) = 1
          /\ pc = "try")

\* C21 as the code has it: on a rate limit the attempt counter is
\* incremented first, then the callback (if any) is called and the clamped
\* wait is slept on every rate limit, the fifth included; only after the
\* wait is the counter tested, and the conversation is abandoned when it has
\* reached 5 and retried otherwise.
C21_WaitThenTestAttempts ==
  /\ [][(executions' = executions + 1 /\ C21_RateLimited') =>
          attempt' = attempt + 1]_vars
  /\ []((C21_RateLimited /\ on_floodwait) =>
          /\ Len(EventsOf("on_floodwait")) = 1
          /\ EventsOf("on_floodwait")[1].attempt = attempt)
  /\ []((C21_RateLimited /\ pc # "raised") =>
          /\ Len(EventsOf("asyncio.sleep")) = 1
          /\ last[Len(last)].ev = "asyncio.sleep"
          /\ attempt >= max_retries => verdict = "abandoned_flood" /\ pc \in {"iter", "done"}
          /\ attempt < max_retries => verdict = "pending" /\ pc = "try")

\* Reached: a conversation abandoned on its fifth rate limit, after the
\* callback was called and the wait slept for that fifth error too.
C21_Witness ==
  /\ C21_RateLimited
  /\ attempt = max_retries
  /\ verdict = "abandoned_flood"
  /\ on_floodwait
  /\ Len(callbacks) = max_retries
  /\ Len(EventsOf("asyncio.sleep")) = 1

\* The latest attempt on a legacy group ran the fallback and the client
\* answered it with the exception type.
C22_FallbackFailed(type) ==
  /\ d.cls = "Chat"
  /\ Len(last) >= 4
  /\ last[3] = Call("client.delete_dialog", d.id)
  /\ last[4] = Answered([type |-> type, seconds |-> 0])

\* C22: the fallback of a legacy group runs at most once per attempt and
\* its failure reaches the retry controller: a rate limit raised by the
\* fallback is handled like any rate limit (callback, clamped wait, retry of
\* the whole action from DeleteChatUserRequest within the 5 attempts), and a
\* permanent or unexpected error raised by it abandons the conversation
\* without retry.
C22_FallbackFailurePropagates ==
  /\ [](Len(SelectSeq(last, LAMBDA e : e.ev = "call" /\ e.req = "client.delete_dialog")) <= 1)
  /\ [](C22_FallbackFailed("FloodWaitError") =>
          /\ C21_RateLimited
          /\ attempt \in 1..max_retries
          /\ on_floodwait =>
               /\ Len(EventsOf("on_floodwait")) = 1
               /\ EventsOf("on_floodwait")[1].secs = WaitS(EventsOf("except")[1].secs)
          /\ pc # "raised" =>
               /\ EventsOf("asyncio.sleep") = << FloodSleep(WaitS(EventsOf("except")[1].secs)) >>
               /\ attempt < max_retries => pc = "try"
               /\ attempt = max_retries => verdict = "abandoned_flood")
  /\ [](C22_FallbackFailed("RPCError") =>
          /\ verdict = "abandoned_rpc"
          /\ pc \in {"iter", "done"}
          /\ EventsOf("asyncio.sleep") = << >>
          /\ EventsOf("on_floodwait") = << >>)
  /\ [](C22_FallbackFailed("Exception") =>
          /\ verdict = "abandoned_exc"
          /\ pc \in {"iter", "done"}
          /\ EventsOf("asyncio.sleep") = << >>
          /\ EventsOf("on_floodwait") = << >>)
  /\ [][(pc = "try" /\ d.cls = "Chat" /\ ~dry_run) =>
          /\ d' = d
          /\ last'[1] = Call("DeleteChatUserRequest", d.id)]_vars

\* Reached: a legacy group whose fallback was rate-limited once and whose
\* action, run again from DeleteChatUserRequest, then succeeded.
C22_Witness ==
  /\ d.cls = "Chat"
  /\ attempt = 1
  /\ executions = 2
  /\ on_floodwait
  /\ Len(callbacks) = 1
  /\ last[1] = Call("DeleteChatUserRequest", d.id)
  /\ verdict = "succeeded"

\* C23: every rate-limit wait is immediately preceded by exactly one call
\* of the callback (when one is supplied) with the title of the conversation
\* being retried, the clamped wait that is then slept, the current attempt
\* number and max_retries = 5; the callback is called at no other point,
\* and the waits and retries do not depend on a callback being supplied.
C23_CallbackBeforeEachWait ==
  /\ [](\A i \in 1..Len(last) :
          /\ (last[i].ev = "asyncio.sleep" /\ on_floodwait) =>
               /\ i > 1
               /\ last[i - 1] = CallbackEv(Title(d), last[i].secs, attempt, 5)
               /\ Len(EventsOf("on_floodwait")) = 1
          /\ last[i].ev = "on_floodwait" =>
               /\ on_floodwait
               /\ C21_RateLimited
               /\ last[i].label = title
               /\ last[i].secs = WaitS(EventsOf("except")[1].secs)
               /\ i < Len(last)
               /\ IF pc = "raised" THEN last[i + 1] = CallbackRaised
                  ELSE last[i + 1] = FloodSleep(last[i].secs))
  /\ [](verdict \notin {"none", "skipped", "discarded"} =>
          Len(callbacks) = IF on_floodwait THEN attempt ELSE 0)
  /\ []((C21_RateLimited /\ pc # "raised") =>
          /\ EventsOf("asyncio.sleep") = << FloodSleep(WaitS(EventsOf("except")[1].secs)) >>
          /\ pc = "try" <=> attempt < max_retries)
  /\ [][(executions' = executions + 1) =>
          callbacks' = callbacks \o EventsOf("on_floodwait")']_vars

\* Reached: the second rate limit of a conversation, reported to the
\* callback with attempt 2 and the wait of 7 seconds that was then slept.
C23_Witness ==
  /\ on_floodwait
  /\ attempt = 2
  /\ Len(last) >= 2
  /\ last[Len(last)] = FloodSleep(7)
  /\ last[Len(last) - 1] = CallbackEv(Title(d), 7, 2, 5)
  /\ pc = "try"

\* The pacing part of C24: an attempt that succeeds ends with exactly one
\* pacing delay, and no other attempt and no skipped conversation has one.
C24_Pacing ==
  /\ [][(executions' = executions + 1) =>
          IF verdict' = "succeeded"
          THEN /\ EventsOf("safe_sleep")' = << PacingSleep >>
               /\ last'[Len(last')] = PacingSleep
               /\ pc' = "iter"
          ELSE EventsOf("safe_sleep")' = << >>]_vars
  /\ [](verdict \in (Abandoned \cup {"skipped", "discarded", "pending", "none"}) =>
          EventsOf("safe_sleep") = << >>)
  /\ [](\A i \in 1..Len(last) :
          last[i].ev \notin {"call", "answer", "except", "on_floodwait", "raise"} =>
            last[i].ev \in {"safe_sleep", "asyncio.sleep"})

\* C24: after every successful action exactly one pacing delay is made
\* before the next conversation is pulled, none after a failed attempt or
\* for a skipped or abandoned conversation; the only suspensions are these
\* pacing delays and the rate-limit waits that precede a retry.
C24_PacingAndWaitsBeforeRetry ==
  /\ C24_Pacing
  /\ [](EventsOf("asyncio.sleep") # << >> => pc = "try")

\* C24 as the code has it: the pacing part as stated; the only suspensions
\* are the pacing delays and one rate-limit wait for every rate limit, which
\* precedes a retry except after the fifth rate limit, where it precedes
\* the abandonment of the conversation.
C24_PacingAndWaitPerRateLimit ==
  /\ C24_Pacing
  /\ [](EventsOf("asyncio.sleep") # << >> =>
          /\ C21_RateLimited
          /\ Len(EventsOf("asyncio.sleep")) = 1
          /\ IF attempt < max_retries THEN pc = "try"
             ELSE verdict = "abandoned_flood")

\* Reached: a conversation that succeeded on its second attempt, with its
\* pacing delay, after a first attempt that was rate-limited.
C24_Witness ==
  /\ verdict = "succeeded"
  /\ executions = 2
  /\ attempt = 1
  /\ ~dry_run
  /\ last[Len(last)] = PacingSleep
  /\ processed = 1

\* A conversation is in a terminal state (or none was pulled yet).
C25_Terminal ==
  verdict \in (Abandoned \cup {"none", "skipped", "succeeded"})

\* C25: the loop brings one conversation to a terminal state, retry waits
\* included, before it pulls the next one; so the requests for one
\* conversation all precede those for the next, every request of an
\* attempt is for the conversation in hand, and a request is answered
\* before the next one is sent.
C25_StrictlySequential ==
  /\ [][pulled' = pulled + 1 => (pc = "iter" /\ C25_Terminal)]_vars
  /\ [][(pc = "try" /\ pc' # "raised") =>
          /\ d' = d
          /\ pulled' = pulled
          /\ pc' = "iter" <=> C25_Terminal']_vars
  /\ [](\A i \in 1..Len(last) :
          last[i].ev = "call" =>
            /\ last[i].target = d.id
            /\ i < Len(last)
            /\ last[i + 1].ev = "answer"
            /\ (i + 2 <= Len(last) /\ last[i + 2].ev = "call") =>
                 last[i + 1].req # "ok")
  /\ [](journal # Untracked =>
          \A i \in 1..Len(journal) :
            journal[i].ev = "call" =>
              \E j \in 1..(i - 1) :
                /\ journal[j].ev = "pull"
                /\ journal[j].target = journal[i].target
                /\ \A k \in (j + 1)..(i - 1) : journal[k].ev = "call")

\* Reached: the second conversation of a run succeeded on its retry after
\* a rate limit, the first one having been processed before it.
C25_Witness ==
  /\ pulled = 2
  /\ processed = 2
  /\ executions = 2
  /\ attempt = 1
  /\ verdict = "succeeded"
  /\ EventsOf("call") # << >>

\* C26: in the loop of main() a dialog whose client call is rate-limited is
\* not skipped: the loop waits the advertised seconds and runs
\* process_dialog again for the same dialog, up to 5 attempts, and
\* processed is incremented only for a dialog whose action completed.
C26_MainRetriesRateLimit ==
  /\ []((executions >= 1 /\ C20_FinalAnswer = "FloodWaitError") =>
          /\ Len(EventsOf("asyncio.sleep")) = 1
          /\ attempt \in 1..max_retries
          /\ attempt < max_retries => pc = "try")
  /\ [][pc = "try" => d' = d /\ pulled' = pulled]_vars
  /\ [](attempt <= max_retries)
  /\ [][processed' = processed + 1 =>
          (returned' = "True" /\ C20_FinalAnswer' = "ok")]_vars

\* The number of client.download_media calls awaited at this moment.
InFlight == Cardinality({i \in DOMAIN task : task[i] = "running"})

\* The number of coroutines whose download completed with success.
Downloaded == Cardinality({i \in DOMAIN task : task[i] \in TypeKeys})

\* The sum of counts over a set of type keys.
RECURSIVE SumCounts(_)
SumCounts(keys) ==
  IF keys = {} THEN 0
  ELSE LET k == CHOOSE x \in keys : TRUE
       IN counts[k] + SumCounts(keys \ {k})

\* C27: download_media_parallel never has more than max_concurrent calls
\* of client.download_media in flight; a download that fails neither
\* cancels nor prevents the others; and the total returned is the number
\* of downloads that completed with success and the sum of the counts per
\* type.
C27_BoundedParallelDownload ==
  /\ [](dpc \in {"gather", "returned"} =>
          /\ InFlight <= max_concurrent
          /\ InFlight = max_concurrent - semaphore)
  /\ [][\A i \in DOMAIN task :
          (i \in DOMAIN task' /\ task'[i] # task[i]) =>
            \/ task[i] = "created" /\ task'[i] \in {"running", "None"}
            \/ task[i] = "running" /\ task'[i] \in TypeKeys \cup {"None"}]_vars
  /\ [][\A i \in DOMAIN task :
          (task[i] = "running" /\ task'[i] = "None") =>
            \A j \in DOMAIN task \ {i} : task'[j] = task[j]]_vars
  /\ [](dpc = "returned" =>
          /\ \A i \in DOMAIN task : task[i] \in TypeKeys \cup {"None"}
          /\ counts["total"] = Downloaded
          /\ counts["total"] = SumCounts(TypeKeys)
          /\ \A k \in TypeKeys :
               counts[k] = Cardinality({i \in DOMAIN task : task[i] = k}))

\* Reached: three downloads of two types under max_concurrent = 2, one of
\* which failed, returned with total 2.
C27_Witness ==
  /\ dpc = "returned"
  /\ max_concurrent = 2
  /\ Len(download_tasks) = 3
  /\ Cardinality({i \in DOMAIN task : task[i] = "None"}) = 1
  /\ counts["total"] = 2
  /\ counts["photo"] = 1
  /\ counts["video"] = 1

\* C28: the retry state is per conversation: each conversation that passes
\* the filter starts with attempt 0, so the attempts used by one
\* conversation never reduce the 5 of a later one, and the attempt given to
\* the callback restarts at 1.
C28_RetryStatePerConversation ==
  /\ [][(pulled' = pulled + 1 /\ pc' = "try") =>
          /\ attempt' = 0
          /\ success' = FALSE]_vars
  /\ []((pc = "try" /\ executions = 0) => attempt = 0)
  /\ [](verdict \notin {"none", "skipped", "discarded"} =>
          /\ attempt <= executions
          /\ attempt <= max_retries)
  /\ [](verdict = "abandoned_flood" => attempt = max_retries /\ executions >= max_retries)
  /\ []((executions >= 1 /\ EventsOf("on_floodwait") # << >>) =>
          /\ EventsOf("on_floodwait")[1].attempt = attempt
          /\ attempt <= executions)
  /\ [][(executions = 0 /\ executions' = 1 /\ EventsOf("on_floodwait")' # << >>) =>
          EventsOf("on_floodwait")'[1].attempt = 1]_vars

\* Reached: the second conversation of a run used all its five attempts
\* after the first one had been abandoned.
C28_Witness ==
  /\ pulled = 2
  /\ processed = 0
  /\ skipped_by_filter = 0
  /\ verdict = "abandoned_flood"
  /\ attempt = max_retries
  /\ executions = max_retries

\* C29: for a finite source and a client whose every call has an outcome,
\* every run of clean_all_dialogs (whose callback does not raise)
\* eventually returns the pair (processed, skipped); each conversation is
\* succeeded or abandoned after at most 5 attempts of its action and at
\* most 5 rate-limit waits; attempt stays within 0..5; processed and
\* skipped never decrease.
C29_Termination ==
  /\ ([](pc # "raised") => <>(pc = "done"))
  /\ ((pc = "try") ~> (pc # "try"))
  /\ [](attempt \in 0..max_retries)
  /\ [](executions \in 0..max_retries)
  /\ []((pc = "iter" /\ verdict \notin {"none", "skipped"}) =>
          verdict \in (Abandoned \cup {"succeeded"}))
  /\ [][/\ processed' >= processed
        /\ skipped_by_filter' >= skipped_by_filter
        /\ (executions' = executions + 1) =>
             Len(EventsOf("asyncio.sleep")') <= 1]_vars
  /\ [][pc = "done" => UNCHANGED << processed, skipped_by_filter >>]_vars

\* Reached: a run returned after its last conversation had used all five
\* attempts.
C29_Witness ==
  /\ pc = "done"
  /\ pulled = MaxDialogs
  /\ attempt = max_retries
  /\ executions = max_retries
  /\ verdict = "abandoned_flood"
  /\ processed = 1

\* C30: when the callback raises, the exception leaves clean_all_dialogs:
\* the run ends without returning counts, the wait and the retry for the
\* current conversation are not made, and no later conversation is pulled
\* or acted on.
C30_CallbackExceptionEscapes ==
  /\ [][(executions' = executions + 1 /\ EventsOf("raise")' # << >>) =>
          /\ on_floodwait
          /\ pc' = "raised"
          /\ verdict' = "callback_raised"
          /\ Len(last') >= 2
          /\ last'[Len(last')] = CallbackRaised
          /\ last'[Len(last') - 1].ev = "on_floodwait"
          /\ EventsOf("asyncio.sleep")' = << >>
          /\ EventsOf("safe_sleep")' = << >>
          /\ processed' = processed
          /\ success' = success]_vars
  /\ [](pc = "raised" <=> EventsOf("raise") # << >>)
  /\ [][pc = "raised" => UNCHANGED vars]_vars
  /\ [][(pc = "try" /\ EventsOf("on_floodwait")' # << >> /\ EventsOf("raise")' = << >>) =>
          last'[Len(last')].ev = "asyncio.sleep"]_vars

\* Reached: the callback raised on the second rate limit of the second
\* conversation; the run has ended there.
C30_Witness ==
  /\ pc = "raised"
  /\ pulled = 2
  /\ attempt = 2
  /\ Len(callbacks) = 2
  /\ last[Len(last)] = CallbackRaised

====
